---- MODULE Spec2Model ----
(***************************************************************************)
(* Students controller of the student-management API: the validation       *)
(* helpers, the six asyncHandler-wrapped request handlers and the mocked   *)
(* service boundary they await.                                            *)
(*                                                                         *)
(* JavaScript strings are sequences of one-character strings.  Every       *)
(* JavaScript value is a record [t, s, n]: t is the type tag, s the        *)
(* characters of a string, n the value of a number (1/0 for a boolean).    *)
(* An object (request body, service payload) is a function from Fields to  *)
(* values, Absent marking a key the object does not have.                  *)
(***************************************************************************)
EXTENDS Integers, Sequences, FiniteSets, TLC

\* ---------------------------------------------------------------- bounds
\* Longest path id and longest email string that are enumerated exhaustively.
MaxIdLen == 3
MaxEmailLen == 6
\* Number of user ids of the storage.
MaxUsers == 2

\* ------------------------------------------------------ JavaScript values
Str(chars) == [t |-> "str", s |-> chars, n |-> 0]
Num(k) == [t |-> "num", s |-> <<>>, n |-> k]
Bool(b) == [t |-> "bool", s |-> <<>>, n |-> IF b THEN 1 ELSE 0]
Null == [t |-> "null", s |-> <<>>, n |-> 0]
Undefined == [t |-> "undef", s |-> <<>>, n |-> 0]
Absent == [t |-> "absent", s |-> <<>>, n |-> 0]

\* Reading a key the object does not have yields undefined.
Get(v) == IF v.t = "absent" THEN Undefined ELSE v

\* ToBoolean: the falsy values are "", 0, false, null and undefined.
Truthy(v) ==
    CASE v.t = "str" -> v.s # <<>>
      [] v.t = "num" -> v.n # 0
      [] v.t = "bool" -> v.n = 1
      [] OTHER -> FALSE

\* The characters \s, String.prototype.trim and parseInt treat as white
\* space: the WhiteSpace and LineTerminator code points of the language.
\* Those without an escape of their own are written by their code point.
WhiteSpace ==
    {" ", "\t", "\n", "\r", "\f", "U+000B", "U+00A0", "U+FEFF", "U+1680",
     "U+2000", "U+2001", "U+2002", "U+2003", "U+2004", "U+2005", "U+2006",
     "U+2007", "U+2008", "U+2009", "U+200A", "U+2028", "U+2029", "U+202F",
     "U+205F", "U+3000"}
Digits == <<"0", "1", "2", "3", "4", "5", "6", "7", "8", "9">>
IsDigit(c) == \E d \in 1..10 : Digits[d] = c
DigitVal(c) == (CHOOSE d \in 1..10 : Digits[d] = c) - 1

RECURSIVE NatToString(_)
NatToString(k) ==
    IF k < 10 THEN <<Digits[k + 1]>>
    ELSE NatToString(k \div 10) \o <<Digits[(k % 10) + 1]>>

\* ToString of the language, as parseInt applies it to its first argument.
JSToString(v) ==
    CASE v.t = "str" -> v.s
      [] v.t = "num" -> IF v.n < 0 THEN <<"-">> \o NatToString(0 - v.n)
                        ELSE NatToString(v.n)
      [] v.t = "bool" -> IF v.n = 1 THEN <<"t", "r", "u", "e">>
                         ELSE <<"f", "a", "l", "s", "e">>
      [] v.t = "null" -> <<"n", "u", "l", "l">>
      [] OTHER -> <<"u", "n", "d", "e", "f", "i", "n", "e", "d">>

RECURSIVE TrimStart(_)
TrimStart(s) ==
    IF s # <<>> /\ Head(s) \in WhiteSpace THEN TrimStart(Tail(s)) ELSE s

RECURSIVE TrimEnd(_)
TrimEnd(s) ==
    IF s # <<>> /\ s[Len(s)] \in WhiteSpace
    THEN TrimEnd(SubSeq(s, 1, Len(s) - 1)) ELSE s

\* String.prototype.trim
Trim(s) == TrimEnd(TrimStart(s))

\* The longest prefix of decimal digits of s.
DigitPrefix(s) ==
    LET others == {i \in 1..Len(s) : ~IsDigit(s[i])}
        k == IF others = {} THEN Len(s)
             ELSE (CHOOSE i \in others : \A j \in others : i <= j) - 1
    IN SubSeq(s, 1, k)

\* A natural number of any size is kept as the sequence of its decimal
\* digits (0..9), most significant first and without leading zeros.
StripZeros(d) ==
    IF \A i \in 1..Len(d) : d[i] = 0 THEN <<0>>
    ELSE LET k == CHOOSE i \in 1..Len(d) :
                      d[i] # 0 /\ \A j \in 1..(i - 1) : d[j] = 0
         IN SubSeq(d, k, Len(d))

\* floor(d / 2) and 2 * d
Halve(d) ==
    StripZeros([i \in 1..Len(d) |->
                   ((IF i > 1 THEN d[i - 1] % 2 ELSE 0) * 10 + d[i]) \div 2])
Double(d) ==
    LET at(j) == IF j >= 1 /\ j <= Len(d) THEN d[j] ELSE 0
    IN StripZeros([i \in 1..(Len(d) + 1) |->
                      (2 * at(i - 1) + (IF at(i) >= 5 THEN 1 ELSE 0)) % 10])

\* floor(d / 2^k) and d * 2^k, by halves of k; the first half is computed
\* before the second starts.
RECURSIVE HalveTimes(_, _)
HalveTimes(d, k) ==
    IF k <= 0 THEN d
    ELSE IF k = 1 THEN Halve(d)
    ELSE LET half == HalveTimes(d, k \div 2)
         IN IF Len(half) > 0 THEN HalveTimes(half, k - (k \div 2)) ELSE half

RECURSIVE DoubleTimes(_, _)
DoubleTimes(d, k) ==
    IF k <= 0 THEN d
    ELSE IF k = 1 THEN Double(d)
    ELSE LET half == DoubleTimes(d, k \div 2)
         IN IF Len(half) > 0 THEN DoubleTimes(half, k - (k \div 2)) ELSE half

\* d + 1
Incr(d) ==
    LET n == Len(d)
    IN IF \A i \in 1..n : d[i] = 9 THEN <<1>> \o [i \in 1..n |-> 0]
       ELSE LET p == CHOOSE i \in 1..n :
                         d[i] # 9 /\ \A j \in (i + 1)..n : d[j] = 9
            IN [i \in 1..n |-> IF i < p THEN d[i]
                               ELSE IF i = p THEN d[i] + 1 ELSE 0]

\* The number of binary digits of nat, 0 for zero.  A number of n decimal
\* digits is at least 2^lo for lo = floor((n - 1) * 3.321928), and what is
\* left after lo halvings is below 32.
BitLength(nat) ==
    IF nat = <<0>> THEN 0
    ELSE LET lo == ((Len(nat) - 1) * 3321928) \div 1000000
             h == HalveTimes(nat, lo)
         IN lo + (CHOOSE j \in 1..6 : /\ HalveTimes(h, j) = <<0>>
                                      /\ HalveTimes(h, j - 1) # <<0>>)

\* The Number type is the IEEE 754 double: 53 binary digits of precision,
\* and Infinity from 2^1024 on.  No number of more than 309 decimal digits
\* is below 2^1024.
Precision == 53
MaxExponent == 1024
MaxDoubleDigits == 309
Pow2_53 == <<9, 0, 0, 7, 1, 9, 9, 2, 5, 4, 7, 4, 0, 9, 9, 2>>
\* A non-negative Number that is an integer or Infinity.
Infinity == [inf |-> TRUE, digits |-> <<>>]
Finite(nat) == [inf |-> FALSE, digits |-> nat]

\* The Number value of the natural number nat: nat rounded to the nearest
\* double, ties to the even mantissa; Infinity when that overflows.
ToDouble(nat) ==
    IF Len(nat) > MaxDoubleDigits THEN Infinity
    ELSE LET len == BitLength(nat)
         IN IF len <= Precision THEN Finite(nat)
            ELSE LET sh == len - Precision
                     g == HalveTimes(nat, sh - 1)
                     q == Halve(g)
                     guard == g[Len(g)] % 2 = 1
                     sticky == DoubleTimes(g, sh - 1) # nat
                     odd == q[Len(q)] % 2 = 1
                     m == IF guard /\ (sticky \/ odd) THEN Incr(q) ELSE q
                 IN IF len = MaxExponent /\ m = Pow2_53 THEN Infinity
                    ELSE IF len > MaxExponent THEN Infinity
                    ELSE Finite(DoubleTimes(m, sh))

\* A Number as parseInt returns it: NaN, or a sign with Infinity or with
\* the decimal digits of an integer.
NaN == [nan |-> TRUE, inf |-> FALSE, neg |-> FALSE, val |-> <<>>]

\* parseInt(v, 10): ToString, skip leading white space, take an optional
\* sign, then the longest prefix of decimal digits; NaN when that prefix is
\* empty.  Whatever follows the digits is ignored.  The result is the Number
\* value of those digits.
ParseInt(v) ==
    LET str == TrimStart(JSToString(v))
        neg == str # <<>> /\ Head(str) = "-"
        signed == str # <<>> /\ Head(str) \in {"-", "+"}
        rest == IF signed THEN Tail(str) ELSE str
        ds == DigitPrefix(rest)
        num == ToDouble(StripZeros([i \in 1..Len(ds) |-> DigitVal(ds[i])]))
    IN IF ds = <<>> THEN NaN
       ELSE IF num.inf
       THEN [nan |-> FALSE, inf |-> TRUE, neg |-> neg, val |-> <<>>]
       ELSE [nan |-> FALSE, inf |-> FALSE, neg |-> neg,
             val |-> [i \in 1..Len(num.digits) |-> Digits[num.digits[i] + 1]]]

\* Number.isInteger(x): false for NaN, Infinity and -Infinity.
NumberIsInteger(x) == ~x.nan /\ ~x.inf
\* x <= 0: false for NaN; zero is <<"0">> with either sign.
LessOrEqualZero(x) == ~x.nan /\ (x.neg \/ (~x.inf /\ x.val = <<"0">>))

\* ------------------------------------------------------------------ errors
NoError == [kind |-> "none", statusCode |-> 0, message |-> ""]
ApiError(code, msg) == [kind |-> "ApiError", statusCode |-> code, message |-> msg]
\* The TypeError of reading property prop of base, base being "undefined"
\* or "null".
TypeError(base, prop) ==
    [kind |-> "TypeError", statusCode |-> 0,
     message |-> "Cannot read properties of " \o base
                 \o " (reading '" \o prop \o "')"]
PlainError == [kind |-> "Error", statusCode |-> 0, message |-> "service failure"]

MsgInvalidId == "Invalid student ID. ID must be a positive integer."
MsgDataRequiredCreate == "Student data is required for create operation."
MsgDataRequiredUpdate == "Student data is required for update operation."
MsgEmailRequired == "A non-empty email is required for student creation."
MsgEmailNonEmpty == "Email must be a non-empty string."
MsgEmailFormat == "Invalid email format provided."
MsgStatusRequired == "Status field is required."
MsgStatusBoolean == "Status must be a boolean value (true/false)."
MsgAuthRequired == "User authentication required for this operation."
MsgInternal == "Internal server error"
MsgNotFound == "Student not found"
\* ERROR_MESSAGES.DATABASE_ERROR, a constant of the constants module.
DATABASE_ERROR == "ERROR_MESSAGES.DATABASE_ERROR"

\* ----------------------------------------------------------------- objects
Fields == {"id", "email", "name", "status", "userId", "reviewerId"}
EmptyObject == [k \in Fields |-> Absent]
\* req.body: present is FALSE when the request carries no object as body,
\* t then tells whether req.body is undefined or null.
NoBody == [present |-> FALSE, t |-> "undefined", f |-> EmptyObject]
NullBody == [present |-> FALSE, t |-> "null", f |-> EmptyObject]
Body(obj) == [present |-> TRUE, t |-> "object", f |-> obj]
\* Object.keys(obj).length
KeysLength(obj) == Cardinality({k \in Fields : obj[k].t # "absent"})

\* -------------------------------------------------------------- validators
validateIdParam(id) ==
    LET numId == ParseInt(id)
    IN IF ~NumberIsInteger(numId) \/ LessOrEqualZero(numId)
       THEN ApiError(400, MsgInvalidId) ELSE NoError

\* /^[^\s@]+@[^\s@]+\.[^\s@]+$/ as a sequence of pattern items, matched
\* with backtracking from the start of the string to its end.
InClass(c) == c \notin WhiteSpace /\ c # "@"
\* Variant: /^[^\s@]+@[^\s@]+$/, the dot of the domain not required.
emailRegexNoDot == << [kind |-> "class+", c |-> ""], [kind |-> "lit", c |-> "@"],
                      [kind |-> "class+", c |-> ""] >>

emailRegex == << [kind |-> "class+", c |-> ""], [kind |-> "lit", c |-> "@"],
                 [kind |-> "class+", c |-> ""], [kind |-> "lit", c |-> "."],
                 [kind |-> "class+", c |-> ""] >>

RECURSIVE MatchFrom(_, _, _, _)
MatchFrom(s, i, p, j) ==
    IF j > Len(p) THEN i > Len(s)
    ELSE IF i > Len(s) THEN FALSE
    ELSE IF p[j].kind = "lit"
         THEN s[i] = p[j].c /\ MatchFrom(s, i + 1, p, j + 1)
         ELSE InClass(s[i])
              /\ (MatchFrom(s, i + 1, p, j + 1) \/ MatchFrom(s, i + 1, p, j))

RegexTest(p, s) == MatchFrom(s, 1, p, 1)

validateEmail(email) ==
    IF ~RegexTest(emailRegex, email) THEN ApiError(400, MsgEmailFormat)
    ELSE NoError

\* Variant: only the emptiness of the body is checked.
validateStudentPayloadNoEmailCheck(body, operation) ==
    IF ~body.present \/ KeysLength(body.f) = 0
    THEN ApiError(400, IF operation = "create" THEN MsgDataRequiredCreate
                       ELSE MsgDataRequiredUpdate)
    ELSE NoError

validateStudentPayload(body, operation) ==
    LET email == Get(body.f["email"])
    IN IF ~body.present \/ KeysLength(body.f) = 0
       THEN ApiError(400, IF operation = "create" THEN MsgDataRequiredCreate
                          ELSE MsgDataRequiredUpdate)
       ELSE IF operation = "create"
       THEN IF ~Truthy(email) \/ email.t # "str" \/ Trim(email.s) = <<>>
            THEN ApiError(400, MsgEmailRequired)
            ELSE validateEmail(Trim(email.s))
       ELSE IF operation = "update" /\ Truthy(email)
       THEN IF email.t # "str" \/ Trim(email.s) = <<>>
            THEN ApiError(400, MsgEmailNonEmpty)
            ELSE validateEmail(Trim(email.s))
       ELSE NoError

\* Reading body.status of an undefined or null body throws a TypeError.
validateStatusPayload(body) ==
    IF ~body.present THEN TypeError(body.t, "status")
    ELSE LET status == Get(body.f["status"])
         IN IF status.t \in {"undef", "null"} THEN ApiError(400, MsgStatusRequired)
            ELSE IF status.t # "bool" THEN ApiError(400, MsgStatusBoolean)
            ELSE NoError

\* Variant: only the presence of req.user is checked, not its id.
validateUserAuthenticationNoIdCheck(user) ==
    IF ~user.present THEN ApiError(401, MsgAuthRequired) ELSE NoError

\* req.user: present is FALSE for null/undefined, id is Absent for {}.
validateUserAuthentication(user) ==
    IF ~user.present \/ ~Truthy(Get(user.id)) THEN ApiError(401, MsgAuthRequired)
    ELSE NoError

\* ------------------------------------------------------- payloads built
\* Variant: the body is forwarded as received, email untrimmed.
AddPayloadUntrimmed(body) == body.f

\* { ...req.body, email: req.body.email.trim() }
AddPayload(body) ==
    [k \in Fields |-> IF k = "email" THEN Str(Trim(body.f["email"].s))
                      ELSE body.f[k]]

\* { id, ...req.body }, then payload.email trimmed when it is truthy.  The
\* spread comes after id, so an id key of the body replaces the path id.
UpdatePayload(id, body) ==
    LET spread == [k \in Fields |->
                     IF k = "id" /\ body.f["id"].t = "absent" THEN id
                     ELSE body.f[k]]
    IN [k \in Fields |->
          IF k = "email" /\ Truthy(Get(spread["email"]))
          THEN Str(Trim(spread["email"].s)) ELSE spread[k]]

\* Variant: the body is spread over the payload, so its userId and
\* reviewerId replace the path id and the caller's id.
StatusPayloadBodySpread(id, body, user) ==
    [k \in Fields |->
        CASE k = "userId" -> IF body.f[k].t = "absent" THEN id ELSE body.f[k]
          [] k = "status" -> body.f["status"]
          [] k = "reviewerId" -> IF body.f[k].t = "absent" THEN user.id
                                 ELSE body.f[k]
          [] OTHER -> Absent]

\* { userId: id, status: req.body.status, reviewerId: req.user.id }
StatusPayload(id, body, user) ==
    [k \in Fields |-> CASE k = "userId" -> id
                        [] k = "status" -> body.f["status"]
                        [] k = "reviewerId" -> user.id
                        [] OTHER -> Absent]

\* ------------------------------------------------------------------ inputs
RECURSIVE StringsUpTo(_, _)
StringsUpTo(alphabet, n) ==
    IF n = 0 THEN {<<>>}
    ELSE LET shorter == StringsUpTo(alphabet, n - 1)
         IN shorter \cup {s \o <<c>> : s \in {x \in shorter : Len(x) = n - 1},
                                        c \in alphabet}

\* 2^53 + 1, the least natural number that is not a Number value.
TwoPow53Plus1 == <<"9", "0", "0", "7", "1", "9", "9", "2", "5", "4", "7", "4",
                   "0", "9", "9", "3">>
IdAlphabet == {"1", "0", "-", ".", "a"}
\* req.params.id: every string over IdAlphabet up to MaxIdLen, a few longer
\* ones, numbers, and undefined for a route without the parameter.
IdInputs ==
    {Str(s) : s \in StringsUpTo(IdAlphabet, MaxIdLen)}
    \cup {Str(<<"1", "a", "b", "c">>), Str(<<" ", "1">>), Str(<<"+", "1">>),
          Str(<<"1", ".", "5">>), Str(<<"1", "2">>),
          Str(<<"\n", "1">>), Str(<<"\r", "\f", "2">>), Str(<<"U+00A0", "1">>),
          Str(<<"1", "\n">>), Str(<<"\n">>), Str(<<"\n", "a">>),
          Str(<<"1", "2", "3", "4", "5", "6", "7", "8">>),
          Str(<<"0", "0", "1", "2", "3", "4", "5", "6", "7", "8", "x">>),
          Str(<<"2", "1", "4", "7", "4", "8", "3", "6", "4", "8">>),
          Str(<<"-", "0">>), Str(<<"+", "0", "7">>), Str(<<"+", " ", "1">>),
          Str(<<"+", "+", "1">>), Str(<<" ", "+", "1">>), Str(<<"0", "0", "0">>),
          Str(TwoPow53Plus1), Str([i \in 1..MaxDoubleDigits |-> "9"]),
          Str([i \in 1..(MaxDoubleDigits + 1) |-> "9"])}
    \cup {Num(1), Num(0), Num(0 - 1), Num(12), Undefined}
\* The ids the update and status-set requests are tried with.
SampleIds ==
    {Str(<<"1">>), Str(<<"2">>), Str(<<"0">>), Str(<<"-", "1">>),
     Str(<<"a", "b", "c">>), Str(<<"1", "a", "b", "c">>),
     Str(<<"1", ".", "5">>), Str(<<"\n", "1">>), Num(1), Undefined}

EmailAlphabet == {"a", "@", ".", " "}
EmailStrings ==
    StringsUpTo(EmailAlphabet, MaxEmailLen)
    \cup {<<"\t", "a", "@", "a", ".", "a", "\t">>,
          <<"a", "\t", "@", "a", ".", "a">>,
          <<" ", "a", "@", "a", ".", "a", " ">>,
          <<"\n", "a", "@", "a", ".", "a", "\r">>,
          <<"a", "\n", "@", "a", ".", "a">>,
          <<"a", "@", "a", ".", "\f">>,
          <<"U+00A0", "a", "@", "a", ".", "a", "U+FEFF">>,
          <<"a", "@", "U+2028", ".", "a">>,
          <<"\n", "\r">>}
NonStringEmails == {Absent, Null, Num(0), Num(5), Bool(TRUE), Bool(FALSE)}
EmailInputs == {Str(s) : s \in EmailStrings} \cup NonStringEmails
\* The emails the update requests are tried with.
SampleEmails ==
    NonStringEmails
    \cup {Str(<<>>), Str(<<" ", " ", " ">>), Str(<<"a">>),
          Str(<<"a", "@", "a">>), Str(<<"a", "@", "a", ".", "a">>),
          Str(<<" ", "a", "@", "a", ".", "a", " ">>),
          Str(<<"a", " ", "@", "a", ".", "a">>),
          Str(<<"\n", "a", "@", "a", ".", "a", "\n">>),
          Str(<<"a", "\n", "@", "a", ".", "a">>), Str(<<"\n">>),
          Str(<<"a", "@", "@", "a", ".", "a">>)}

OtherId == Str(<<"2">>)
NameInputs == {Absent, Str(<<"A">>)}
BodyIdInputs == {Absent, OtherId}
StatusInputs == {Absent, Null, Bool(TRUE), Bool(FALSE),
                 Str(<<"t", "r", "u", "e">>), Num(1), Num(0)}
ReviewerInputs == {Absent, Num(9)}

User(id) == [present |-> TRUE, id |-> id]
NoUser == [present |-> FALSE, id |-> Absent]
UserInputs == {NoUser, User(Absent), User(Num(0)), User(Num(1)), User(Num(2))}

CreateBodies ==
    {NoBody, NullBody} \cup
    {Body([k \in Fields |-> CASE k = "email" -> e
                              [] k = "name" -> nm
                              [] k = "id" -> i
                              [] OTHER -> Absent]) :
        e \in EmailInputs, nm \in NameInputs, i \in BodyIdInputs}
UpdateBodies ==
    {NoBody, NullBody} \cup
    {Body([k \in Fields |-> CASE k = "email" -> e
                              [] k = "name" -> nm
                              [] k = "id" -> i
                              [] OTHER -> Absent]) :
        e \in SampleEmails, nm \in NameInputs, i \in BodyIdInputs}
StatusBodies ==
    {NoBody, NullBody} \cup
    {Body([k \in Fields |-> CASE k = "status" -> st
                              [] k = "reviewerId" -> rv
                              [] k = "userId" -> ui
                              [] OTHER -> Absent]) :
        st \in StatusInputs, rv \in ReviewerInputs, ui \in BodyIdInputs}
\* req.query: no filter, or the filter { name: "John" }.
QueryInputs ==
    {EmptyObject, [EmptyObject EXCEPT !["name"] = Str(<<"J", "o", "h", "n">>)]}

\* What the awaited service call settles with.
ServiceResults == {"object", "array", "undefined", "null"}
ServiceErrors == {ApiError(404, "Student not found"),
                  ApiError(500, "Unable to process request"),
                  ApiError(500, DATABASE_ERROR), PlainError}

\* ----------------------------------------------------------------- storage
UserIds == 1..MaxUsers
\* A user record: role "none" stands for an id without a record.
NoRecord == [role |-> "none", active |-> FALSE, reviewer |-> 0]
\* The callers that can be recorded as reviewer; 0 stands for none.
ReviewerIds == {8, 9}
UserRecords ==
    {NoRecord} \cup [role : {"student", "teacher"}, active : BOOLEAN,
                     reviewer : {0} \cup ReviewerIds]
SeedUsers == [i \in UserIds |-> IF i = 1 THEN [role |-> "student",
                                                active |-> TRUE, reviewer |-> 0]
                                ELSE NoRecord]
\* The raw error texts a failing db.query rejects with; "" is no failure.
DbErrors == {"connect ECONNREFUSED 127.0.0.1:5432",
             "relation \"users\" does not exist"}
NoLog == [level |-> "none", message |-> "", errorMessage |-> ""]
NoSvcOut == [op |-> "none", id |-> 0, dbError |-> "", dbRowCount |-> 0,
             dbThrown |-> NoError, dbReturned |-> 0, log |-> NoLog,
             affected |-> 0, thrown |-> NoError]

\* ------------------------------------------------------------------- state
VARIABLES
    handler,   \* the handler serving the current request, "none" when idle
    req,       \* the request: params.id, body, user, query
    pc,        \* "idle", "awaiting" (suspended on the service call), "done"
    call,      \* the service call made for this request
    res,       \* the response sent through res.status(..).json / .end
    nextErr,   \* the error asyncHandler passed to next
    errRes,    \* the response handleGlobalError rendered for nextErr
    users,     \* the user records of the storage, by id
    svcOut     \* the outcome of the last call of the lifecycle service

vars == <<handler, req, pc, call, res, nextErr, errRes, users, svcOut>>
svcVars == <<users, svcOut>>

\* The request of the test fixture: { body: {}, params: {}, query: {}, user: { id: 1 } }
DefaultReq == [id |-> Undefined, body |-> Body(EmptyObject),
               user |-> User(Num(1)), query |-> EmptyObject]
\* settled tells whether the awaited promise is pending, resolved or
\* rejected, result what it resolved with.
NoCall == [fn |-> "none", arg |-> Undefined, obj |-> EmptyObject,
           settled |-> "none", result |-> "none"]
NoResponse == [statusCode |-> 0, sent |-> "none", data |-> "none"]
NoErrorResponse == [statusCode |-> 0, error |-> ""]

Init ==
    /\ handler = "none"
    /\ req = DefaultReq
    /\ pc = "idle"
    /\ call = NoCall
    /\ res = NoResponse
    /\ nextErr = NoError
    /\ errRes = NoErrorResponse
    /\ users = SeedUsers
    /\ svcOut = NoSvcOut

\* A validator threw: the asyncHandler wrapper hands the error to next and
\* the handler body never reaches its service call.
Rejected(h, r, err) ==
    /\ handler' = h
    /\ req' = r
    /\ pc' = "done"
    /\ call' = NoCall
    /\ res' = NoResponse
    /\ nextErr' = err
    /\ errRes' = NoErrorResponse
    /\ UNCHANGED svcVars

\* The handler reached its await: the service call is made.
Awaiting(h, r, c) ==
    /\ handler' = h
    /\ req' = r
    /\ pc' = "awaiting"
    /\ call' = [fn |-> c.fn, arg |-> c.arg, obj |-> c.obj,
                settled |-> "pending", result |-> "none"]
    /\ res' = NoResponse
    /\ nextErr' = NoError
    /\ errRes' = NoErrorResponse
    /\ UNCHANGED svcVars

\* Variant: only the first validator stops the handler.
FirstErrorOfFirstValidator(errs) == errs[1]

\* The first error thrown by a sequence of validators run in order.
FirstError(errs) ==
    IF \E i \in 1..Len(errs) : errs[i] # NoError
    THEN errs[CHOOSE i \in 1..Len(errs) :
                /\ errs[i] # NoError
                /\ \A j \in 1..(i - 1) : errs[j] = NoError]
    ELSE NoError

handleGetAllStudents(query) ==
    /\ pc = "idle"
    /\ Awaiting("handleGetAllStudents", [DefaultReq EXCEPT !.query = query],
                [fn |-> "getAllStudents", arg |-> Undefined, obj |-> query])

handleAddStudent(body) ==
    /\ pc = "idle"
    /\ LET r == [DefaultReq EXCEPT !.body = body]
           err == validateStudentPayload(body, "create")
       IN IF err # NoError THEN Rejected("handleAddStudent", r, err)
          ELSE Awaiting("handleAddStudent", r,
                        [fn |-> "addNewStudent", arg |-> Undefined,
                         obj |-> AddPayload(body)])

handleUpdateStudent(id, body) ==
    /\ pc = "idle"
    /\ LET r == [DefaultReq EXCEPT !.id = id, !.body = body]
           err == FirstError(<<validateIdParam(id),
                               validateStudentPayload(body, "update")>>)
       IN IF err # NoError THEN Rejected("handleUpdateStudent", r, err)
          ELSE Awaiting("handleUpdateStudent", r,
                        [fn |-> "updateStudent", arg |-> Undefined,
                         obj |-> UpdatePayload(id, body)])

handleGetStudentDetail(id) ==
    /\ pc = "idle"
    /\ LET r == [DefaultReq EXCEPT !.id = id]
           err == validateIdParam(id)
       IN IF err # NoError THEN Rejected("handleGetStudentDetail", r, err)
          ELSE Awaiting("handleGetStudentDetail", r,
                        [fn |-> "getStudentDetail", arg |-> id,
                         obj |-> EmptyObject])

handleStudentStatus(id, body, user) ==
    /\ pc = "idle"
    /\ LET r == [DefaultReq EXCEPT !.id = id, !.body = body, !.user = user]
           err == FirstError(<<validateIdParam(id), validateStatusPayload(body),
                               validateUserAuthentication(user)>>)
       IN IF err # NoError THEN Rejected("handleStudentStatus", r, err)
          ELSE Awaiting("handleStudentStatus", r,
                        [fn |-> "setStudentStatus", arg |-> Undefined,
                         obj |-> StatusPayload(id, body, user)])

handleDeleteStudent(id, user) ==
    /\ pc = "idle"
    /\ LET r == [DefaultReq EXCEPT !.id = id, !.user = user]
           err == FirstError(<<validateIdParam(id),
                               validateUserAuthentication(user)>>)
       IN IF err # NoError THEN Rejected("handleDeleteStudent", r, err)
          ELSE Awaiting("handleDeleteStudent", r,
                        [fn |-> "deleteStudent", arg |-> id,
                         obj |-> EmptyObject])

\* res.status(code) of each handler's success path.
SuccessCode(h) ==
    CASE h = "handleAddStudent" -> 201
      [] h = "handleDeleteStudent" -> 204
      [] OTHER -> 200

\* Variant: delete answers with a JSON body like the other handlers.
SuccessSendJson(h) == "json"

\* The success path ends in res.end() for delete and res.json(..) otherwise.
SuccessSend(h) == IF h = "handleDeleteStudent" THEN "end" ELSE "json"

\* The statements between the await and the response read students.length
\* (list) or result.id (create, update): they throw a TypeError when the
\* service resolved with undefined or null.
ThrowsAfterAwait(h, result) ==
    /\ h \in {"handleGetAllStudents", "handleAddStudent", "handleUpdateStudent"}
    /\ result \in {"undefined", "null"}

\* The TypeError those statements throw: the first property read of the
\* result is students.length in the list handler and result.id in the others.
ErrorAfterAwait(h, result) ==
    TypeError(result, IF h = "handleGetAllStudents" THEN "length" ELSE "id")

\* Variant: the response is sent before the statements that read the
\* result, so a throw comes after the success response.
ServiceResolveRespondsFirst(result) ==
    /\ pc = "awaiting"
    /\ pc' = "done"
    /\ nextErr' = IF ThrowsAfterAwait(handler, result)
                   THEN ErrorAfterAwait(handler, result) ELSE nextErr
    /\ res' = [statusCode |-> SuccessCode(handler),
               sent |-> SuccessSend(handler),
               data |-> IF SuccessSend(handler) = "end" THEN "none" ELSE result]
    /\ call' = [call EXCEPT !.settled = "resolved", !.result = result]
    /\ UNCHANGED <<handler, req, errRes>>
    /\ UNCHANGED svcVars

\* The awaited service call resolves and the handler runs to its end.
ServiceResolve(result) ==
    /\ pc = "awaiting"
    /\ pc' = "done"
    /\ IF ThrowsAfterAwait(handler, result)
       THEN /\ nextErr' = ErrorAfterAwait(handler, result)
            /\ res' = res
       ELSE /\ nextErr' = nextErr
            /\ res' = [statusCode |-> SuccessCode(handler),
                       sent |-> SuccessSend(handler),
                       data |-> IF SuccessSend(handler) = "end" THEN "none"
                                ELSE result]
    /\ call' = [call EXCEPT !.settled = "resolved", !.result = result]
    /\ UNCHANGED <<handler, req, errRes>>
    /\ UNCHANGED svcVars

\* The awaited service call rejects: asyncHandler passes the error to next.
ServiceReject(err) ==
    /\ pc = "awaiting"
    /\ pc' = "done"
    /\ nextErr' = err
    /\ call' = [call EXCEPT !.settled = "rejected"]
    /\ UNCHANGED <<handler, req, res, errRes>>
    /\ UNCHANGED svcVars

\* The request is over; the next one starts from fresh req, res and next.
NextRequest ==
    /\ pc = "done"
    /\ handler' = "none"
    /\ req' = DefaultReq
    /\ pc' = "idle"
    /\ call' = NoCall
    /\ res' = NoResponse
    /\ nextErr' = NoError
    /\ errRes' = NoErrorResponse
    /\ UNCHANGED svcVars

\* Variant: the status code and message computed for the log are sent for
\* every error.
ErrorResponseFromLogFields(err) ==
    [statusCode |-> IF err.statusCode # 0 THEN err.statusCode ELSE 500,
     error |-> IF err.message # "" THEN err.message ELSE MsgInternal]

\* The response of handleGlobalError: an ApiError is rendered with its own
\* status code and message, anything else as 500 with a fixed message.
ErrorResponse(err) ==
    IF err.kind = "ApiError"
    THEN [statusCode |-> err.statusCode, error |-> err.message]
    ELSE [statusCode |-> 500, error |-> MsgInternal]

\* The error middleware registered after the routes renders the error the
\* handler passed to next.
handleGlobalError ==
    /\ pc = "done"
    /\ nextErr # NoError
    /\ errRes = NoErrorResponse
    /\ errRes' = ErrorResponse(nextErr)
    /\ UNCHANGED <<handler, req, pc, call, res, nextErr>>
    /\ UNCHANGED svcVars

\* A request arrives only between requests (pc = "idle"); a settlement of
\* the service call only while a handler is suspended on it.
Next ==
    \/ pc = "idle" /\ \E q \in QueryInputs : handleGetAllStudents(q)
    \/ pc = "idle" /\ \E b \in CreateBodies : handleAddStudent(b)
    \/ pc = "idle" /\ \E i \in SampleIds, b \in UpdateBodies :
                         handleUpdateStudent(i, b)
    \/ pc = "idle" /\ \E i \in IdInputs : handleGetStudentDetail(i)
    \/ pc = "idle" /\ \E i \in SampleIds, b \in StatusBodies, u \in UserInputs :
                         handleStudentStatus(i, b, u)
    \/ pc = "idle" /\ \E i \in IdInputs, u \in UserInputs :
                         handleDeleteStudent(i, u)
    \/ pc = "awaiting" /\ \E r \in ServiceResults : ServiceResolve(r)
    \/ pc = "awaiting" /\ \E e \in ServiceErrors : ServiceReject(e)
    \/ handleGlobalError
    \/ NextRequest

Spec == Init /\ [][Next]_vars

\* ------------------------------------------------------ processDBRequest
\* Variant: the thrown error carries the message of the storage error.
processDBRequestRawMessage(rowCount, dbError, slow) ==
    IF dbError = ""
    THEN [thrown |-> NoError, returned |-> rowCount,
          log |-> IF slow THEN [level |-> "warn",
                                message |-> "Slow database query detected",
                                errorMessage |-> ""]
                  ELSE NoLog]
    ELSE [thrown |-> ApiError(500, dbError), returned |-> 0,
          log |-> [level |-> "error", message |-> "Database operation failed",
                   errorMessage |-> dbError]]

\* processDBRequest around one db.query: rowCount is the row count of the
\* result db.query resolves with, dbError the message of the error it
\* rejects with ("" when it resolves), slow whether it took over 1000 ms.
processDBRequest(rowCount, dbError, slow) ==
    IF dbError = ""
    THEN [thrown |-> NoError, returned |-> rowCount,
          log |-> IF slow THEN [level |-> "warn",
                                message |-> "Slow database query detected",
                                errorMessage |-> ""]
                  ELSE NoLog]
    ELSE [thrown |-> ApiError(500, DATABASE_ERROR), returned |-> 0,
          log |-> [level |-> "error", message |-> "Database operation failed",
                   errorMessage |-> dbError]]

\* ------------------------------------------------------ lifecycle service
\* Variant: the write is not scoped to the student role.
ActiveWrittenAnyRole(rec, active, reviewerId) ==
    IF rec.role = "none" THEN rec
    ELSE [rec EXCEPT !.active = active,
                     !.reviewer = IF reviewerId = 0 THEN @ ELSE reviewerId]

\* setStudentActive of the repository contract, scoped to the student role:
\* the record after the write.  A reviewer of 0 leaves the reviewer as is.
ActiveWritten(rec, active, reviewerId) ==
    IF rec.role # "student" THEN rec
    ELSE [rec EXCEPT !.active = active,
                     !.reviewer = IF reviewerId = 0 THEN @ ELSE reviewerId]

\* The affected-row count of that write: the rows it actually changed.
AffectedRows(rec, active, reviewerId) ==
    IF ActiveWritten(rec, active, reviewerId) # rec THEN 1 ELSE 0

\* if (affectedRow <= 0) throw new ApiError(404, "Student not found")
ZeroRowsError == ApiError(404, MsgNotFound)

\* One role-scoped status mutation of the service: the repository write
\* goes through processDBRequest, a storage failure passes through, and
\* zero affected rows are reported as not found.
StatusMutation(op, id, active, reviewerId, dbError, slow) ==
    LET rec == users[id]
        rows == IF dbError = "" THEN AffectedRows(rec, active, reviewerId) ELSE 0
        db == processDBRequest(rows, dbError, slow)
    IN /\ users' = IF dbError = ""
                   THEN [users EXCEPT ![id] = ActiveWritten(rec, active, reviewerId)]
                   ELSE users
       /\ svcOut' = [op |-> op, id |-> id, dbError |-> dbError,
                     dbRowCount |-> rows, dbThrown |-> db.thrown,
                     dbReturned |-> db.returned, log |-> db.log,
                     affected |-> db.returned,
                     thrown |-> IF db.thrown # NoError THEN db.thrown
                                ELSE IF db.returned <= 0 THEN ZeroRowsError
                                ELSE NoError]
       /\ UNCHANGED <<handler, req, pc, call, res, nextErr, errRes>>

setStudentStatus(userId, status, reviewerId, dbError, slow) ==
    StatusMutation("setStudentStatus", userId, status, reviewerId, dbError, slow)

deleteStudent(id, dbError, slow) ==
    StatusMutation("deleteStudent", id, FALSE, 0, dbError, slow)

ServiceInit ==
    /\ handler = "none"
    /\ req = DefaultReq
    /\ pc = "idle"
    /\ call = NoCall
    /\ res = NoResponse
    /\ nextErr = NoError
    /\ errRes = NoErrorResponse
    /\ users \in [UserIds -> UserRecords]
    /\ svcOut = NoSvcOut

ServiceNext ==
    \/ \E i \in UserIds, st \in BOOLEAN, rv \in ReviewerIds,
          e \in DbErrors \cup {""}, slow \in BOOLEAN :
          setStudentStatus(i, st, rv, e, slow)
    \/ \E i \in UserIds, e \in DbErrors \cup {""}, slow \in BOOLEAN :
          deleteStudent(i, e, slow)

ServiceSpec == ServiceInit /\ [][ServiceNext]_vars

\* ================================================================= claims
IdHandlers == {"handleGetStudentDetail", "handleUpdateStudent",
               "handleStudentStatus", "handleDeleteStudent"}
Served == pc # "idle"
ServiceCalled == call.fn # "none"
\* The request failed with InvalidArgument before any service call.
Rejected400 ==
    /\ pc = "done"
    /\ nextErr.kind = "ApiError"
    /\ nextErr.statusCode = 400
    /\ ~ServiceCalled
    /\ res.sent = "none"

AllDigits(s) == s # <<>> /\ \A i \in 1..Len(s) : IsDigit(s[i])
Unsigned(s) == IF s # <<>> /\ s[1] \in {"+", "-"} THEN Tail(s) ELSE s
\* Decimal notation of an integer: optional sign, then digits only.
IsIntegerNumeral(s) == AllDigits(Unsigned(s))
\* Decimal notation of a number: optional sign, digits with at most one
\* decimal point among them.
IsNumeral(s) ==
    LET u == Unsigned(s)
    IN /\ \E i \in 1..Len(u) : IsDigit(u[i])
       /\ \A i \in 1..Len(u) : IsDigit(u[i]) \/ u[i] = "."
       /\ Cardinality({i \in 1..Len(u) : u[i] = "."}) <= 1
\* The integer an integer numeral denotes is <= 0: it carries a minus
\* sign or all its digits are zero.
NumeralNonPositive(s) ==
    \/ s # <<>> /\ s[1] = "-"
    \/ \A i \in 1..Len(Unsigned(s)) : Unsigned(s)[i] = "0"

\* The least natural number that parseInt turns into Infinity:
\* 2^1024 - 2^970, half-way between the largest double and 2^1024.
FirstInfinite ==
    "179769313486231580793728971405303415079934132710037826936173" \o
    "778980444968292764750946649017977587207096330286416692887910" \o
    "946555547851940402630657488671505820681908902000708383676273" \o
    "854845817711531764475730270069855571366959622842914819860834" \o
    "936475292719074168444365510704342711559699508093042880177904" \o
    "174497792"
\* The digits ds, without leading zeros, denote a number below FirstInfinite.
BelowFirstInfinite(ds) ==
    \/ Len(ds) < Len(FirstInfinite)
    \/ /\ Len(ds) = Len(FirstInfinite)
       /\ \E k \in 1..Len(ds) :
             /\ \A j \in 1..(k - 1) : ds[j] = SubSeq(FirstInfinite, j, j)
             /\ DigitVal(ds[k]) < DigitVal(SubSeq(FirstInfinite, k, k))
\* The path id reads as a positive integer: a number > 0, or a string that
\* starts, after white space and an optional plus sign, with digits that
\* denote an integer > 0 below FirstInfinite (positions a..b are those
\* digits without their leading zeros, z..a-1 the leading zeros).
ReadsAsPositiveInteger(v) ==
    \/ v.t = "num" /\ v.n > 0
    \/ /\ v.t = "str"
       /\ \E a \in 1..Len(v.s) : \E b \in a..Len(v.s) :
             /\ v.s[a] # "0"
             /\ \A k \in a..b : IsDigit(v.s[k])
             /\ b < Len(v.s) => ~IsDigit(v.s[b + 1])
             /\ BelowFirstInfinite(SubSeq(v.s, a, b))
             /\ \E z \in 1..a : \E w \in 0..(z - 1) :
                   /\ \A k \in z..(a - 1) : v.s[k] = "0"
                   /\ \A k \in 1..w : v.s[k] \in WhiteSpace
                   /\ w = z - 1 \/ (w = z - 2 /\ v.s[z - 1] = "+")
\* What the id check is to pass to next for a path id.
IdCheck(v) ==
    IF ReadsAsPositiveInteger(v) THEN NoError ELSE ApiError(400, MsgInvalidId)

\* C1: in handleUpdateStudent the id of the payload handed to updateStudent
\* is always the path parameter req.params.id, whatever the body carries.
C1_UpdateIdIsPathId ==
    call.fn = "updateStudent" => call.obj["id"] = req.id

\* No identity attached: req.user null/undefined, or without an id.
NoIdentity(user) == ~user.present \/ user.id.t \in {"absent", "undef", "null"}
AuthHandlers == {"handleStudentStatus", "handleDeleteStudent"}
Unauthenticated == ApiError(401, MsgAuthRequired)

\* C2 (as claimed): a status-set or delete request without identity always
\* fails with Unauthenticated (401) and never reaches the service.
C2_NoIdentityAlways401 ==
    (Served /\ handler \in AuthHandlers /\ NoIdentity(req.user))
        => (nextErr = Unauthenticated /\ ~ServiceCalled)

\* C2 (amended): a status-set or delete request without identity never
\* reaches the service and always ends with an error passed to next.  That
\* error is the one of the first check that fails, in the order path id,
\* status payload (status-set only), identity: 400 for an id that does not
\* read as a positive integer; else, for status-set, a TypeError when the
\* request has no body, 400 "required" for a missing or null status and
\* 400 "boolean" for a status of another type; else Unauthenticated (401).
C2_NoIdentityNeverReachesService ==
    (Served /\ handler \in AuthHandlers /\ NoIdentity(req.user))
        => LET status == req.body.f["status"]
               isStatus == handler = "handleStudentStatus"
           IN /\ ~ServiceCalled
              /\ pc = "done"
              /\ res.sent = "none"
              /\ nextErr =
                    IF ~ReadsAsPositiveInteger(req.id)
                    THEN ApiError(400, MsgInvalidId)
                    ELSE IF isStatus /\ ~req.body.present
                    THEN TypeError(req.body.t, "status")
                    ELSE IF isStatus /\ status.t \in {"absent", "undef", "null"}
                    THEN ApiError(400, MsgStatusRequired)
                    ELSE IF isStatus /\ status.t # "bool"
                    THEN ApiError(400, MsgStatusBoolean)
                    ELSE Unauthenticated

C2_Witness ==
    /\ handler = "handleStudentStatus"
    /\ pc = "done"
    /\ ~req.user.present
    /\ req.id = Str(<<"1">>)
    /\ req.body.f["status"] = Bool(TRUE)
    /\ nextErr = Unauthenticated

\* An integer n <= 0 given as a number or as its decimal notation.
IsNonPositiveInteger(v) ==
    \/ v.t = "num" /\ v.n <= 0
    \/ v.t = "str" /\ IsIntegerNumeral(v.s) /\ NumeralNonPositive(v.s)
IsNonNumericString(v) == v.t = "str" /\ ~IsNumeral(Trim(v.s))

\* C3: a path id that is an integer n <= 0 or a non-numeric string is
\* rejected with InvalidArgument (400) by the detail, update, status and
\* delete handlers, and the service is not called.
C3_BadIdRejected ==
    (Served /\ handler \in IdHandlers
       /\ (IsNonPositiveInteger(req.id) \/ IsNonNumericString(req.id)))
        => (Rejected400 /\ nextErr.message = MsgInvalidId)

\* The whole input is the base-10 notation of an integer > 0.
IsPositiveIntegerInput(v) ==
    \/ v.t = "num" /\ v.n > 0
    \/ v.t = "str" /\ IsIntegerNumeral(Trim(v.s)) /\ ~NumeralNonPositive(Trim(v.s))

\* C4: validateIdParam lets a path id through only if the whole input is
\* the base-10 notation of an integer > 0; floats and a missing value are
\* rejected with 400 like zero, negatives and non-numeric strings.
C4_OnlyWholePositiveIntegers ==
    (Served /\ handler \in IdHandlers /\ ~IsPositiveIntegerInput(req.id))
        => (Rejected400 /\ nextErr.message = MsgInvalidId)

\* t is s without its leading and trailing white space.
IsTrimOf(t, s) ==
    /\ t # <<>> => (t[1] \notin WhiteSpace /\ t[Len(t)] \notin WhiteSpace)
    /\ \E i \in 1..(Len(s) + 1) : \E j \in 0..Len(s) :
          /\ SubSeq(s, i, j) = t
          /\ \A k \in 1..Len(s) : (k < i \/ k > j) => s[k] \in WhiteSpace

\* C5: the payload handleAddStudent hands to addNewStudent carries the
\* body's email without its leading and trailing white space, and every
\* other field of the body with its value unchanged.
C5_CreateForwardsTrimmedEmail ==
    call.fn = "addNewStudent" =>
        /\ call.obj["email"].t = "str"
        /\ IsTrimOf(call.obj["email"].s, req.body.f["email"].s)
        /\ \A k \in Fields \ {"email"} : call.obj[k] = req.body.f[k]

C5_Witness ==
    /\ call.fn = "addNewStudent"
    /\ req.body.f["email"] = Str(<<" ", "a", "@", "a", ".", "a">>)
    /\ call.obj["email"] = Str(<<"a", "@", "a", ".", "a">>)
    /\ req.body.f["name"] = Str(<<"A">>)
    /\ call.obj["name"] = Str(<<"A">>)

OnlyWhiteSpace(s) == \A i \in 1..Len(s) : s[i] \in WhiteSpace

\* C6: handleAddStudent rejects with InvalidArgument (400), without calling
\* addNewStudent, a body that is missing or empty, has no email, has a
\* non-string email, or has an email that is empty after trimming.
C6_CreateRequiresEmail ==
    (Served /\ handler = "handleAddStudent"
       /\ \/ ~req.body.present
          \/ KeysLength(req.body.f) = 0
          \/ req.body.f["email"].t # "str"
          \/ OnlyWhiteSpace(req.body.f["email"].s))
        => Rejected400

C6_Witness ==
    /\ handler = "handleAddStudent"
    /\ req.body.f["name"] = Str(<<"A">>)
    /\ req.body.f["email"] = Num(5)
    /\ Rejected400

\* <non-space non-@ chars>@<non-space non-@ chars>.<non-space non-@ chars>,
\* each run non-empty.
HasEmailForm(t) ==
    \E i \in 1..Len(t) : \E j \in 1..Len(t) :
        /\ t[i] = "@"
        /\ t[j] = "."
        /\ 1 < i
        /\ i + 1 < j
        /\ j < Len(t)
        /\ \A k \in 1..Len(t) : t[k] \notin WhiteSpace /\ (k # i => t[k] # "@")
NoAtOrNoDotAfterAt(t) ==
    \/ \A i \in 1..Len(t) : t[i] # "@"
    \/ \E i \in 1..Len(t) :
          /\ t[i] = "@"
          /\ \A k \in 1..(i - 1) : t[k] # "@"
          /\ \A j \in (i + 1)..Len(t) : t[j] # "."

\* C7: a create request whose email is a string that is not blank passes
\* email validation exactly when the trimmed string has the form
\* local@domain.tld (non-empty runs without white space or '@'); a string
\* with no '@', or with no '.' after the '@', fails with 400.
C7_EmailFormat ==
    (Served /\ handler = "handleAddStudent" /\ req.body.present
       /\ req.body.f["email"].t = "str"
       /\ ~OnlyWhiteSpace(req.body.f["email"].s))
        => LET t == Trim(req.body.f["email"].s)
           IN /\ ServiceCalled <=> HasEmailForm(t)
              /\ ~ServiceCalled => (Rejected400 /\ nextErr.message = MsgEmailFormat)
              /\ NoAtOrNoDotAfterAt(t) => Rejected400

C7_Witness ==
    /\ handler = "handleAddStudent"
    /\ req.body.f["email"] = Str(<<"a", "@", "a", "a", ".">>)
    /\ Rejected400
    /\ nextErr.message = MsgEmailFormat

\* The email of an update body is acceptable: a string that passes email
\* validation after trimming.
ValidEmailValue(v) == v.t = "str" /\ HasEmailForm(Trim(v.s))

\* C8: handleUpdateStudent rejects an empty body with 400, accepts a body
\* without an email field, and whenever an email field is present (whatever
\* its value) requires it to be a string that passes email validation after
\* trimming, failing with 400 and without calling updateStudent otherwise.
C8_UpdateEmailValidatedWhenPresent ==
    (Served /\ handler = "handleUpdateStudent"
       /\ validateIdParam(req.id) = NoError)
        => IF ~req.body.present \/ KeysLength(req.body.f) = 0 THEN Rejected400
           ELSE IF req.body.f["email"].t = "absent" THEN ServiceCalled
           ELSE IF ValidEmailValue(req.body.f["email"]) THEN ServiceCalled
           ELSE Rejected400

\* C9: a status-set request whose body.status is not strictly a boolean
\* fails with InvalidArgument (400) and setStudentStatus is not called; a
\* missing or null status gets one message, a wrong type another.  The
\* status of a request without a body is missing.
C9_StatusMustBeBoolean ==
    (Served /\ handler = "handleStudentStatus"
       /\ ReadsAsPositiveInteger(req.id))
        => LET status == req.body.f["status"]
           IN /\ ServiceCalled => (status \in {Bool(TRUE), Bool(FALSE)}
                                   /\ call.obj["status"] = status)
              /\ status.t \in {"absent", "null"}
                    => (Rejected400 /\ nextErr.message = MsgStatusRequired)
              /\ status.t \in {"str", "num"}
                    => (Rejected400 /\ nextErr.message = MsgStatusBoolean)
              /\ MsgStatusRequired # MsgStatusBoolean

\* C10: a success response carries the status code of its operation (list
\* 200, create 201, detail 200, update 200, status-set 200, delete 204);
\* delete answers through res.end with no body, after deleteStudent was
\* called with the path id, and every other handler answers through
\* res.json.
C10_SuccessCodes ==
    res.sent # "none" =>
        /\ handler = "handleGetAllStudents" => res.statusCode = 200
        /\ handler = "handleAddStudent" => res.statusCode = 201
        /\ handler = "handleGetStudentDetail" => res.statusCode = 200
        /\ handler = "handleUpdateStudent" => res.statusCode = 200
        /\ handler = "handleStudentStatus" => res.statusCode = 200
        /\ handler = "handleDeleteStudent" =>
              /\ res.statusCode = 204
              /\ res.sent = "end"
              /\ res.data = "none"
              /\ call.fn = "deleteStudent"
              /\ call.arg = req.id
        /\ handler # "handleDeleteStudent" => res.sent = "json"
        /\ nextErr = NoError

C10_Witness ==
    /\ handler = "handleDeleteStudent"
    /\ pc = "done"
    /\ res = [statusCode |-> 204, sent |-> "end", data |-> "none"]
    /\ call.arg = Str(<<"1">>)

\* C11: handleGlobalError renders an ApiError with exactly its own status
\* code and body { error: its message }, and every other error as 500 with
\* the body { error: "Internal server error" }, whatever its message.
C11_ErrorRendering ==
    errRes # NoErrorResponse =>
        IF nextErr.kind = "ApiError"
        THEN errRes = [statusCode |-> nextErr.statusCode,
                       error |-> nextErr.message]
        ELSE /\ errRes = [statusCode |-> 500, error |-> "Internal server error"]
             /\ errRes.error # nextErr.message

C11_Witness ==
    /\ nextErr = PlainError
    /\ errRes = [statusCode |-> 500, error |-> "Internal server error"]

\* C12: processDBRequest turns every failure of db.query into an ApiError
\* with status 500 and the fixed DATABASE_ERROR message; the raw storage
\* error text is only logged, never part of the thrown error; on success it
\* returns the query result unchanged and throws nothing.
C12_DbFailureWrapped ==
    svcOut.op # "none" =>
        IF svcOut.dbError # ""
        THEN /\ svcOut.dbThrown.kind = "ApiError"
             /\ svcOut.dbThrown.statusCode = 500
             /\ svcOut.dbThrown.message = DATABASE_ERROR
             /\ svcOut.dbThrown.message # svcOut.dbError
             /\ svcOut.log.level = "error"
             /\ svcOut.log.errorMessage = svcOut.dbError
        ELSE /\ svcOut.dbThrown = NoError
             /\ svcOut.dbReturned = svcOut.dbRowCount
             /\ svcOut.log.errorMessage = ""

C12_Witness ==
    /\ svcOut.op = "deleteStudent"
    /\ svcOut.dbError \in DbErrors
    /\ svcOut.thrown = ApiError(500, DATABASE_ERROR)
    /\ svcOut.log.errorMessage = svcOut.dbError

\* C14: when the role-scoped mutation of setStudentStatus or deleteStudent
\* targets an id without a record, or a user whose role is not student, it
\* affects zero rows and the operation fails with NotFound (404), never
\* with 500 and never with silent success; and no step of a student
\* operation changes the record of a non-student user.
C14_NonStudentIsNotFound ==
    [][ /\ \A i \in UserIds :
              users[i].role # "student" => users'[i] = users[i]
        /\ (svcOut'.dbError = "" /\ users[svcOut'.id].role # "student")
              => /\ svcOut'.affected = 0
                 /\ svcOut'.thrown = ApiError(404, "Student not found") ]_vars

C14_Witness ==
    /\ svcOut.op = "setStudentStatus"
    /\ users[svcOut.id].role = "teacher"
    /\ users[svcOut.id].active
    /\ svcOut.dbError = ""
    /\ svcOut.thrown = ApiError(404, "Student not found")

\* C15: deleteStudent is safe to retry: a deleteStudent(id) that directly
\* follows a successful deleteStudent(id) is not reported as an error by
\* the service (storage failures aside), and the student stays inactive.
C15_DeleteRetryIsNoError ==
    [][ (/\ svcOut.op = "deleteStudent"
         /\ svcOut.thrown = NoError
         /\ svcOut'.op = "deleteStudent"
         /\ svcOut'.id = svcOut.id
         /\ svcOut'.dbError = "")
            => /\ svcOut'.thrown = NoError
               /\ ~users'[svcOut'.id].active ]_vars

\* What the validators of a handler are to yield for the request, in the
\* order the handler runs them.
ValidatorResults ==
    CASE handler = "handleAddStudent" ->
            <<validateStudentPayload(req.body, "create")>>
      [] handler = "handleUpdateStudent" ->
            <<IdCheck(req.id), validateStudentPayload(req.body, "update")>>
      [] handler = "handleGetStudentDetail" -> <<IdCheck(req.id)>>
      [] handler = "handleStudentStatus" ->
            <<IdCheck(req.id), validateStatusPayload(req.body),
              validateUserAuthentication(req.user)>>
      [] handler = "handleDeleteStudent" ->
            <<IdCheck(req.id), validateUserAuthentication(req.user)>>
      [] OTHER -> <<>>
ValidatingHandlers == {"handleAddStudent", "handleUpdateStudent",
                       "handleGetStudentDetail", "handleStudentStatus",
                       "handleDeleteStudent"}

\* C13: in the create, update, detail, status-set and delete handlers the
\* service is invoked only after all validators of the handler succeeded;
\* when one fails, the error of the first failing validator goes to next,
\* no success response is sent and the service is never invoked.
C13_ShortCircuit ==
    (Served /\ handler \in ValidatingHandlers) =>
        LET errs == ValidatorResults
            failing == {i \in 1..Len(errs) : errs[i] # NoError}
        IN IF failing = {}
           THEN ServiceCalled
           ELSE /\ ~ServiceCalled
                /\ pc = "done"
                /\ res.sent = "none"
                /\ \E i \in failing : /\ \A j \in failing : i <= j
                                      /\ nextErr = errs[i]

C13_Witness ==
    /\ handler = "handleUpdateStudent"
    /\ req.id = Str(<<"1">>)
    /\ KeysLength(req.body.f) = 0
    /\ ~ServiceCalled
    /\ nextErr = ApiError(400, MsgDataRequiredUpdate)

\* C16: the payload handleStudentStatus hands to setStudentStatus is
\* exactly { userId: path id, status: body.status, reviewerId: req.user.id },
\* whatever other fields the body carries.
C16_StatusPayloadExact ==
    call.fn = "setStudentStatus" =>
        /\ call.obj["userId"] = req.id
        /\ call.obj["status"] = req.body.f["status"]
        /\ call.obj["reviewerId"] = req.user.id
        /\ \A k \in Fields \ {"userId", "status", "reviewerId"} :
              call.obj[k] = Absent

C16_Witness ==
    /\ call.fn = "setStudentStatus"
    /\ req.body.f["reviewerId"] = Num(9)
    /\ req.body.f["userId"] = OtherId
    /\ req.user = User(Num(2))
    /\ call.obj["reviewerId"] = Num(2)
    /\ call.obj["userId"] = Str(<<"1">>)

\* sub occurs in text (String.prototype.includes, case-sensitive).
Contains(text, sub) ==
    \E i \in 1..(Len(text) - Len(sub) + 1) :
        SubSeq(text, i, i + Len(sub) - 1) = sub

\* C17: when handleAddStudent rejects a body because its email is missing
\* or blank after trimming, the error passed to next has status 400 and a
\* message that contains "Email is required".
C17_EmailRequiredMessage ==
    (Served /\ handler = "handleAddStudent" /\ req.body.present
       /\ KeysLength(req.body.f) > 0
       /\ \/ req.body.f["email"].t = "absent"
          \/ req.body.f["email"].t = "str" /\ OnlyWhiteSpace(req.body.f["email"].s))
        => /\ nextErr.kind = "ApiError"
           /\ nextErr.statusCode = 400
           /\ Contains(nextErr.message, "Email is required")

\* C18: in handleStudentStatus the path id is checked first, then the
\* status payload, then the caller's identity, and the first failure
\* decides: a request without identity that also has an invalid id or a
\* non-boolean status is answered with 400, not 401.
C18_StatusCheckOrder ==
    (Served /\ handler = "handleStudentStatus") =>
        LET status == req.body.f["status"]
        IN /\ ~ReadsAsPositiveInteger(req.id)
                 => (Rejected400 /\ nextErr.message = MsgInvalidId)
           /\ (ReadsAsPositiveInteger(req.id) /\ status.t # "bool")
                 => (Rejected400
                     /\ nextErr.message \in {MsgStatusRequired, MsgStatusBoolean})
           /\ nextErr = Unauthenticated
                 => (ReadsAsPositiveInteger(req.id) /\ status.t = "bool")

Handlers == ValidatingHandlers \cup {"handleGetAllStudents"}

\* C19: every invocation of a handler ends in exactly one outcome: either
\* a success response was sent or an error was passed to next, never both
\* and never neither; while the service call is pending there is none yet.
C19_ExactlyOneOutcome ==
    handler \in Handlers =>
        /\ pc = "done" => ((res.sent # "none") # (nextErr # NoError))
        /\ pc = "awaiting" => (res.sent = "none" /\ nextErr = NoError)

C19_Witness ==
    /\ handler = "handleUpdateStudent"
    /\ pc = "done"
    /\ call.settled = "resolved"
    /\ call.result = "null"
    /\ nextErr = TypeError("null", "id")
    /\ res.sent = "none"

\* C20: whenever all validators passed and the service call resolved, with
\* any value (undefined and null included), the handler sends its success
\* response and passes no error to next.
C20_ResolvedMeansSuccess ==
    call.settled = "resolved" =>
        /\ res.sent # "none"
        /\ res.statusCode \in {200, 201, 204}
        /\ nextErr = NoError

====
